---------------------------- MODULE Spec2Model ----------------------------
(***************************************************************************)
(* The cache manager of solver/cachemanager.go: identity resolution of     *)
(* CacheKeys (getID, getIDFromDeps), link persistence                      *)
(* (ensurePersistentKey) and the public operations Query, Records, Load,   *)
(* LoadWithParents, Save over a key/link store and a result store.         *)
(***************************************************************************)
EXTENDS Naturals, Sequences, FiniteSets, TLC

VARIABLES
  links,      \* per manager: the links of its CacheKeyStorage
  assoc,      \* per manager: the key -> CacheResult associations of its CacheKeyStorage
  rstore,     \* per manager: its CacheResultStorage, result ID -> artifact
  ids,        \* per CacheKey object: k.ids, manager -> identifier
  nextID,     \* identifiers minted by identity.NewID() so far
  saved,      \* per manager: the keys a Save has succeeded for
  ret,        \* the last operation and what it returned
  nops,       \* operations run so far
  faulted,    \* a collaborator call has failed in some operation of the run
  th,         \* per goroutine: the call it is in and where it is in it
  mu,         \* c.mu: the goroutine holding it for writing, those holding it for reading
  overlap,    \* the calls that made a backend call amid the backend calls of a Save
  kmu,        \* per CacheKey object: k.mu, the goroutine holding it
  cmu,        \* per manager: c.mu, as mu, where goroutines resolve keys on several managers
  go          \* per goroutine resolving a key: the getID calls it is in, innermost last

vars == <<links, assoc, rstore, ids, nextID, saved, ret, nops, faulted, th, mu, overlap,
          kmu, cmu, go>>

-----------------------------------------------------------------------------
(* Bounds of the model *)

MaxOps == 2          \* operations in one run
MaxNew == 3          \* identifiers identity.NewID() may mint in one run
MaxCalls == 6        \* the collaborator call of an operation that may fail: 1..MaxCalls

-----------------------------------------------------------------------------
(* Digests, identifiers, keys *)

Managers == {"M1", "M2"}
NoID == ""

Dg == [alg |-> "sha256", enc |-> "g"]
Dp == [alg |-> "sha256", enc |-> "p"]
Dk == [alg |-> "sha256", enc |-> "k"]
Dx == [alg |-> "sha256", enc |-> "x"]
Dq(n) == [alg |-> "sha256", enc |-> n]
Dr == [alg |-> "random", enc |-> "r"]

\* digest.Digest.String()
DigestString(d) == d.alg \o ":" \o d.enc

\* the identifier of a dependency-free key
rootKey(dgst, output) ==
  IF dgst.alg = "random"
    THEN "random:" \o dgst.enc
    ELSE "sha256:H(" \o DigestString(dgst) \o "@" \o ToString(output) \o ")"

CacheKeyWithSelector(k, s) == [key |-> k, sel |-> s]

\* The CacheKey objects of the callers.  deps[i] are the alternatives of
\* input slot i-1.  k1 and k2 are two objects of the same structure.  x has
\* two slots of two alternatives each, the dependency-free keys q1..q4.
\* g2 is a second object of the fields of g, g3 differs in the output; r1, r2
\* and r3 are dependency-free keys of a "random:" digest.
Key ==
  [ g  |-> [digest |-> Dg, output |-> 0, ID |-> rootKey(Dg, 0), deps |-> <<>>],
    p  |-> [digest |-> Dp, output |-> 0, ID |-> rootKey(Dp, 0),
            deps |-> << <<CacheKeyWithSelector("g", "")>> >>],
    k1 |-> [digest |-> Dk, output |-> 0, ID |-> rootKey(Dk, 0),
            deps |-> << <<CacheKeyWithSelector("p", "s")>> >>],
    k2 |-> [digest |-> Dk, output |-> 0, ID |-> rootKey(Dk, 0),
            deps |-> << <<CacheKeyWithSelector("p", "s")>> >>],
    k3 |-> [digest |-> Dk, output |-> 0, ID |-> rootKey(Dk, 0),
            deps |-> << <<CacheKeyWithSelector("g", "s")>> >>],
    g2 |-> [digest |-> Dg, output |-> 0, ID |-> rootKey(Dg, 0), deps |-> <<>>],
    g3 |-> [digest |-> Dg, output |-> 1, ID |-> rootKey(Dg, 1), deps |-> <<>>],
    r1 |-> [digest |-> Dr, output |-> 0, ID |-> rootKey(Dr, 0), deps |-> <<>>],
    r2 |-> [digest |-> Dr, output |-> 0, ID |-> rootKey(Dr, 0), deps |-> <<>>],
    r3 |-> [digest |-> Dr, output |-> 1, ID |-> rootKey(Dr, 1), deps |-> <<>>],
    q1 |-> [digest |-> Dq("q1"), output |-> 0, ID |-> rootKey(Dq("q1"), 0), deps |-> <<>>],
    q2 |-> [digest |-> Dq("q2"), output |-> 0, ID |-> rootKey(Dq("q2"), 0), deps |-> <<>>],
    q3 |-> [digest |-> Dq("q3"), output |-> 0, ID |-> rootKey(Dq("q3"), 0), deps |-> <<>>],
    q4 |-> [digest |-> Dq("q4"), output |-> 0, ID |-> rootKey(Dq("q4"), 0), deps |-> <<>>],
    x  |-> [digest |-> Dx, output |-> 0, ID |-> rootKey(Dx, 0),
            deps |-> << <<CacheKeyWithSelector("q1", ""), CacheKeyWithSelector("q2", "")>>,
                        <<CacheKeyWithSelector("q3", ""), CacheKeyWithSelector("q4", "")>> >>] ]

Keys == DOMAIN Key
\* the keys the operations are run on
Callers == {"g", "p", "k1", "k2", "k3"}

CacheInfoLink(input, output, dgst, selector) ==
  [Input |-> input, Output |-> output, Digest |-> dgst, Selector |-> selector]

CacheResult(id, createdAt) == [ID |-> id, CreatedAt |-> createdAt]

\* A reference to a CacheKey: one of the callers' objects (name), or a key
\* made by newKeyWithID (name = "", no deps, ID = ids[c] = id).
KeyObj(k) == [name |-> k, ID |-> Key[k].ID]
newKeyWithID(id) == [name |-> "", ID |-> id]
newRootKey(dgst, output) == newKeyWithID(rootKey(dgst, output))

Artifacts == {"a1", "a2"}
\* Result.ID()
ResultID(r) == "r-" \o r
Times == {1}

-----------------------------------------------------------------------------
(* The world an operation of manager c runs in: c's two stores, the keys'  *)
(* ids, and the operation's own bookkeeping: the fallible collaborator     *)
(* calls made so far, the one that fails (fail, 0: none), whether a failing *)
(* walk had visited its entries (partial), the member a map iteration      *)
(* yields first (pref), and the AddLink calls issued.                      *)

World(c, f, pt, pf) ==
  [links |-> links[c], assoc |-> assoc[c], rstore |-> rstore[c], ids |-> ids,
   next |-> nextID, calls |-> 0, fail |-> f, partial |-> pt, pref |-> pf,
   nAddLink |-> 0, failed |-> ""]

\* the stores of M1 as they are, no call failing
Now0 == World("M1", 0, FALSE, "")

\* v is bound to x in F: what a local variable of the code is
Let(v, F(_)) == F(v)

Fails(w) == w.calls + 1 = w.fail
\* one more fallible collaborator call; failed names the one that failed
Call(w, name) ==
  [w EXCEPT !.calls = @ + 1, !.failed = IF Fails(w) THEN name ELSE @]

\* the first member a Go map iteration yields
Pick(w, S) == IF w.pref \in S THEN w.pref ELSE CHOOSE x \in S : TRUE

(* CacheKeyStorage *)

Exists(w, id) ==
  \/ \E a \in w.assoc : a.id = id
  \/ \E l \in w.links : l.src = id

WalkLinks(w, id, l) ==
  [w |-> Call(w, "WalkLinks"), err |-> Fails(w),
   ids |-> {x.dst : x \in {y \in w.links : y.src = id /\ y.l = l}}]

HasLink(w, id, l, target) == [src |-> id, l |-> l, dst |-> target] \in w.links

AddLink(w, id, l, target) ==
  IF Fails(w)
    THEN [w |-> [Call(w, "AddLink") EXCEPT !.nAddLink = @ + 1], err |-> TRUE]
    ELSE [w |-> [Call(w, "AddLink") EXCEPT !.nAddLink = @ + 1,
                                !.links = @ \cup {[src |-> id, l |-> l, dst |-> target]}],
          err |-> FALSE]

AddResult(w, id, res) ==
  IF Fails(w)
    THEN [w |-> Call(w, "AddResult"), err |-> TRUE]
    ELSE [w |-> [Call(w, "AddResult") EXCEPT
                   !.assoc = {a \in @ : ~(a.id = id /\ a.res.ID = res.ID)}
                             \cup {[id |-> id, res |-> res]}],
          err |-> FALSE]

WalkResults(w, id) ==
  [w |-> Call(w, "WalkResults"), err |-> Fails(w),
   res |-> IF Fails(w) /\ ~w.partial THEN {}
           ELSE {a.res : a \in {b \in w.assoc : b.id = id}}]

BackendLoad(w, id, resultID) ==
  LET found == {a.res : a \in {b \in w.assoc : b.id = id /\ b.res.ID = resultID}} IN
  IF Fails(w) \/ found = {}
    THEN [w |-> Call(w, "backend.Load"), err |-> TRUE, res |-> CacheResult("", 0)]
    ELSE [w |-> Call(w, "backend.Load"), err |-> FALSE, res |-> CHOOSE r \in found : TRUE]

Release(w, resultID) ==
  IF Fails(w)
    THEN [w |-> Call(w, "Release"), err |-> TRUE]
    ELSE [w |-> [Call(w, "Release") EXCEPT !.assoc = {a \in @ : a.res.ID # resultID}],
          err |-> FALSE]

\* the identifiers the store knows: it calls back on each, unless it fails
\* before the first (or, partial, after the last)
Walk(w) ==
  [w |-> Call(w, "Walk"), err |-> Fails(w),
   ids |-> IF Fails(w) /\ ~w.partial THEN {}
           ELSE {a.id : a \in w.assoc} \cup {l.src : l \in w.links}
                                       \cup {l.dst : l \in w.links}]

(* CacheResultStorage *)

ResultExists(w, resultID) == resultID \in DOMAIN w.rstore

ResultSave(w, r, createdAt) ==
  IF Fails(w)
    THEN [w |-> Call(w, "results.Save"), err |-> TRUE, res |-> CacheResult("", 0)]
    ELSE [w |-> [Call(w, "results.Save") EXCEPT
                   !.rstore = [x \in DOMAIN @ \cup {ResultID(r)} |->
                                 IF x = ResultID(r) THEN r ELSE @[x]]],
          err |-> FALSE, res |-> CacheResult(ResultID(r), createdAt)]

ResultLoad(w, res) ==
  IF Fails(w) \/ ~ResultExists(w, res.ID)
    THEN [w |-> Call(w, "results.Load"), err |-> TRUE, art |-> ""]
    ELSE [w |-> Call(w, "results.Load"), err |-> FALSE, art |-> w.rstore[res.ID]]

-----------------------------------------------------------------------------
(* Identity resolution *)

NewID(w) == [w |-> [w EXCEPT !.next = @ + 1], id |-> "id" \o ToString(w.next + 1)]

\* k.ids[c] = r.id
SetID(r, k, c) == [w |-> [r.w EXCEPT !.ids[k][c] = r.id], id |-> r.id]

\* what the walk of one dependency of slot i (from 1) does to the candidates
\* the intersection taken at slot 0 as well
IntersectAlways(i, matches, m2) == matches \cap m2

Intersect(i, matches, m2) == IF i = 1 THEN matches \cup m2 ELSE matches \cap m2

\* the label with a slot index counted from 1
DepLinkFromOne(k, i, j) ==
  CacheInfoLink(i, Key[k].output, Key[k].digest, Key[k].deps[i][j].sel)

\* the label of the link from dependency j of slot i (both from 1) to key k
DepLink(k, i, j) ==
  CacheInfoLink(i - 1, Key[k].output, Key[k].digest, Key[k].deps[i][j].sel)

\* a new identifier whatever the matches
AlwaysMint(r) == NewID(r.w)

\* lines 444-448
PickOrMint(r) ==
  IF r.matches # {} THEN [w |-> r.w, id |-> Pick(r.w, r.matches)] ELSE NewID(r.w)

RECURSIVE getID(_, _, _)
RECURSIVE getIDFromDepsLoop(_, _, _, _, _, _)
RECURSIVE getIDFromDeps(_, _, _)

\* every key derived from its dependencies, a key without any too
getIDAlwaysDerived(w, c, k) ==
  IF w.ids[k][c] # NoID THEN [w |-> w, id |-> w.ids[k][c]]
  ELSE Let(getIDFromDeps(w, c, k), LAMBDA r :
         [w |-> [r.w EXCEPT !.ids[k][c] = r.id], id |-> r.id])

\* lines 413-442: the loops of getIDFromDeps, at dependency j of slot i
getIDFromDepsLoop(w, c, k, i, j, matches) ==
  IF i > Len(Key[k].deps) THEN [w |-> w, matches |-> matches]
  ELSE IF (j = 1 /\ ~(i = 1 \/ matches # {})) \/ j > Len(Key[k].deps[i])
    THEN getIDFromDepsLoop(w, c, k, i + 1, 1, matches)
  ELSE Let(getID(w, c, Key[k].deps[i][j].key), LAMBDA p :
       Let(WalkLinks(p.w, p.id, DepLink(k, i, j)), LAMBDA wl :
         IF wl.err
           THEN getIDFromDepsLoop(wl.w, c, k, i + 1, 1, {})
           ELSE getIDFromDepsLoop(wl.w, c, k, i, j + 1,
                                  Intersect(i, matches, wl.ids))))

getIDFromDeps(w, c, k) == PickOrMint(getIDFromDepsLoop(w, c, k, 1, 1, {}))

getID(w, c, k) ==
  IF w.ids[k][c] # NoID THEN [w |-> w, id |-> w.ids[k][c]]
  ELSE IF Len(Key[k].deps) = 0 THEN SetID([w |-> w, id |-> Key[k].ID], k, c)
  ELSE SetID(getIDFromDeps(w, c, k), k, c)

\* getID of a key reference
getRefID(w, c, ref) ==
  IF ref.name = "" THEN [w |-> w, id |-> ref.ID] ELSE getID(w, c, ref.name)

-----------------------------------------------------------------------------
(* ensurePersistentKey *)

\* the link taken as missing without asking the store
LinkAlwaysMissing(w, ckID, l, id) == TRUE

\* line 397: the link is added only when the store does not hold it
LinkMissing(w, ckID, l, id) == ~HasLink(w, ckID, l, id)

RECURSIVE ensurePersistentKey(_, _, _)
RECURSIVE ensureDeps(_, _, _, _, _, _)

\* lines 388-406, at dependency j of slot i (both from 1)
ensureDeps(w, c, k, id, i, j) ==
  IF i > Len(Key[k].deps) THEN [w |-> w, err |-> FALSE]
  ELSE IF j > Len(Key[k].deps[i]) THEN ensureDeps(w, c, k, id, i + 1, 1)
  ELSE Let(getID(w, c, Key[k].deps[i][j].key), LAMBDA p :
         IF LinkMissing(p.w, p.id, DepLink(k, i, j), id)
           THEN Let(ensurePersistentKey(p.w, c, Key[k].deps[i][j].key), LAMBDA e :
                  IF e.err THEN e
                  ELSE Let(AddLink(e.w, p.id, DepLink(k, i, j), id), LAMBDA a :
                         IF a.err THEN a ELSE ensureDeps(a.w, c, k, id, i, j + 1)))
           ELSE ensureDeps(p.w, c, k, id, i, j + 1))

ensurePersistentKey(w, c, k) ==
  Let(getID(w, c, k), LAMBDA r : ensureDeps(r.w, c, k, r.id, 1, 1))

-----------------------------------------------------------------------------
(* Save *)

CacheRecord(resultID, ref, createdAt) ==
  [ID |-> resultID, key |-> ref, CreatedAt |-> createdAt]

NoRec == CacheRecord("", newKeyWithID(""), 0)

SaveFailed(w) == [w |-> w, err |-> TRUE, rec |-> NoRec]

\* line 330
AddResultUnder(g, res) == AddResult(g.w, g.id, res)

Save(w, c, k, r, createdAt) ==
  Let(ResultSave(w, r, createdAt), LAMBDA s :
    IF s.err THEN SaveFailed(s.w)
    ELSE Let(AddResultUnder(getID(s.w, c, k), s.res), LAMBDA a :
           IF a.err THEN SaveFailed(a.w)
           ELSE Let(ensurePersistentKey(a.w, c, k), LAMBDA e :
                  IF e.err THEN SaveFailed(e.w)
                  ELSE [w |-> e.w, err |-> FALSE,
                        rec |-> CacheRecord(s.res.ID, KeyObj(k), s.res.CreatedAt)])))

-----------------------------------------------------------------------------
(* Query *)

QueryArgs(deps, input, dgst, output) ==
  [deps |-> deps, input |-> input, dgst |-> dgst, output |-> output]

QueryLabel(q, d) == CacheInfoLink(q.input, q.output, q.dgst, d.sel)

RECURSIVE queryWalk(_, _, _, _, _)
\* lines 100-111: results[n] are the identifiers dependency n links to
queryWalk(w, c, q, n, results) ==
  IF n > Len(q.deps) THEN [w |-> w, err |-> FALSE, results |-> results]
  ELSE Let(getID(w, c, q.deps[n].key), LAMBDA p :
       Let(WalkLinks(p.w, p.id, QueryLabel(q, q.deps[n])), LAMBDA wl :
         IF wl.err THEN [w |-> wl.w, err |-> TRUE, results |-> results]
         ELSE queryWalk(wl.w, c, q, n + 1, Append(results, wl.ids))))

\* no dependency taken as lacking the link
NeverNotLinked(results, n, id) == FALSE

\* line 116: the dependency did not reach the identifier itself
NotLinked(results, n, id) == id \notin results[n]

RECURSIVE queryLinkDepsReversed(_, _, _, _, _, _)
\* the links added from the identifier to the dependency
queryLinkDepsReversed(w, c, q, results, id, n) ==
  IF n > Len(q.deps) THEN [w |-> w, err |-> FALSE]
  ELSE IF NotLinked(results, n, id)
    THEN Let(getID(w, c, q.deps[n].key), LAMBDA p :
         Let(AddLink(p.w, id, QueryLabel(q, q.deps[n]), p.id), LAMBDA a :
           IF a.err THEN a ELSE queryLinkDepsReversed(a.w, c, q, results, id, n + 1)))
  ELSE queryLinkDepsReversed(w, c, q, results, id, n + 1)

RECURSIVE queryLinkDeps(_, _, _, _, _, _)
\* lines 115-126, for one identifier of allRes
queryLinkDeps(w, c, q, results, id, n) ==
  IF n > Len(q.deps) THEN [w |-> w, err |-> FALSE]
  ELSE IF NotLinked(results, n, id)
    THEN Let(getID(w, c, q.deps[n].key), LAMBDA p :
         Let(AddLink(p.w, p.id, QueryLabel(q, q.deps[n]), id), LAMBDA a :
           IF a.err THEN a ELSE queryLinkDeps(a.w, c, q, results, id, n + 1)))
  ELSE queryLinkDeps(w, c, q, results, id, n + 1)

RECURSIVE queryLink(_, _, _, _, _)
\* lines 114-127: allRes is iterated in map order
queryLink(w, c, q, results, rest) ==
  IF rest = {} THEN [w |-> w, err |-> FALSE]
  ELSE Let(Pick(w, rest), LAMBDA id :
       Let(queryLinkDeps(w, c, q, results, id, 1), LAMBDA r :
         IF r.err THEN r ELSE queryLink(r.w, c, q, results, rest \ {id})))

AllRes(results) == UNION {results[n] : n \in 1..Len(results)}

\* the keys of the identifiers walked, without the case of empty deps
QueryKeysWalkedOnly(w, q, allRes) == {newKeyWithID(id) : id \in allRes}

\* the root key returned whether its identifier exists or not
QueryKeysRootUnchecked(w, q, allRes) ==
  IF Len(q.deps) = 0 THEN {newRootKey(q.dgst, q.output)}
  ELSE {newKeyWithID(id) : id \in allRes}

\* lines 129-140
QueryKeys(w, q, allRes) ==
  IF Len(q.deps) = 0
    THEN IF ~Exists(w, rootKey(q.dgst, q.output)) THEN {}
         ELSE {newRootKey(q.dgst, q.output)}
    ELSE {newKeyWithID(id) : id \in allRes}

Query(w, c, q) ==
  Let(queryWalk(w, c, q, 1, <<>>), LAMBDA wk :
    IF wk.err THEN [w |-> wk.w, err |-> TRUE, keys |-> {}]
    ELSE Let(queryLink(wk.w, c, q, wk.results, AllRes(wk.results)), LAMBDA lk :
           IF lk.err THEN [w |-> lk.w, err |-> TRUE, keys |-> {}]
           ELSE [w |-> lk.w, err |-> FALSE,
                 keys |-> QueryKeys(lk.w, q, AllRes(wk.results))]))

-----------------------------------------------------------------------------
(* Records *)

\* line 168; the error Release returns is dropped
ReleaseStale(w, resultID) == Release(w, resultID).w

RECURSIVE recordsWalk(_, _, _, _)
\* lines 159-170: the callback of WalkResults, over the results walked
recordsWalk(w, ck, rest, outs) ==
  IF rest = {} THEN [w |-> w, outs |-> outs]
  ELSE Let(CHOOSE x \in rest : TRUE, LAMBDA r :
         IF ResultExists(w, r.ID)
           THEN recordsWalk(w, ck, rest \ {r},
                            outs \cup {CacheRecord(r.ID, ck, r.CreatedAt)})
           ELSE recordsWalk(ReleaseStale(w, r.ID), ck, rest \ {r}, outs))

\* lines 171-174
RecordsReturn(wr, cb) ==
  IF wr.err THEN [w |-> cb.w, err |-> TRUE, recs |-> {}]
  ELSE [w |-> cb.w, err |-> FALSE, recs |-> cb.outs]

Records(w, c, ck) ==
  Let(getRefID(w, c, ck), LAMBDA g :
  Let(WalkResults(g.w, g.id), LAMBDA wr :
    RecordsReturn(wr, recordsWalk(wr.w, ck, wr.res, {}))))

-----------------------------------------------------------------------------
(* ReleaseUnreferenced *)

\* acc.visited is the visited set; acc.checked and acc.released are the
\* result IDs c.results.Exists and c.backend.Release were called with, in order
NoneVisited == [visited |-> {}, checked |-> <<>>, released |-> <<>>]

\* lines 53-55; the error Release returns is dropped
releaseIfAbsent(w, acc, cr) ==
  IF ResultExists(w, cr.ID)
    THEN [w |-> w, acc |-> [acc EXCEPT !.visited = @ \cup {cr.ID},
                                       !.checked = Append(@, cr.ID)]]
    ELSE [w |-> Release(w, cr.ID).w,
          acc |-> [acc EXCEPT !.visited = @ \cup {cr.ID},
                              !.checked = Append(@, cr.ID),
                              !.released = Append(@, cr.ID)]]

RECURSIVE releaseResults(_, _, _)
\* lines 48-57: the callback of WalkResults, over the results walked
releaseResults(w, acc, rest) ==
  IF rest = {} THEN [w |-> w, acc |-> acc]
  ELSE Let(CHOOSE x \in rest : TRUE, LAMBDA cr :
         IF cr.ID \in acc.visited THEN releaseResults(w, acc, rest \ {cr})
         ELSE Let(releaseIfAbsent(w, acc, cr), LAMBDA r :
                releaseResults(r.w, r.acc, rest \ {cr})))

RECURSIVE releaseWalk(_, _, _)
\* lines 47-58: the callback of Walk, over the identifiers walked
releaseWalk(w, acc, rest) ==
  IF rest = {} THEN [w |-> w, err |-> FALSE, acc |-> acc]
  ELSE Let(CHOOSE x \in rest : TRUE, LAMBDA id :
       Let(WalkResults(w, id), LAMBDA wr :
       Let(releaseResults(wr.w, acc, wr.res), LAMBDA r :
         IF wr.err THEN [w |-> r.w, err |-> TRUE, acc |-> r.acc]
         ELSE releaseWalk(r.w, r.acc, rest \ {id}))))

ReleaseUnreferenced(w, c) ==
  Let(Walk(w), LAMBDA wk :
  Let(releaseWalk(wk.w, NoneVisited, wk.ids), LAMBDA r :
    [w |-> r.w, err |-> wk.err \/ r.err, acc |-> r.acc]))

-----------------------------------------------------------------------------
(* Load *)

Load(w, c, rec) ==
  Let(getRefID(w, c, rec.key), LAMBDA g :
  Let(BackendLoad(g.w, g.id, rec.ID), LAMBDA b :
    IF b.err THEN [w |-> b.w, err |-> TRUE, art |-> ""]
    ELSE ResultLoad(b.w, b.res)))

-----------------------------------------------------------------------------
(* LoadWithParents *)

\* ck.Deps()
Deps(ck) == IF ck.name = "" THEN <<>> ELSE Key[ck.name].deps

LoadedResult(res, cr, ck) == [Result |-> res, CacheResult |-> cr, CacheKey |-> ck]

\* An artifact handle of the bulk mapping, known by the identifier it is
\* mapped under.  h.m is the map m, h.visited the visited set, h.rel the
\* number of Release calls each handle has received.
Handle(id) == "h:" \o id

ReleaseOne(h, res) == [h EXCEPT !.rel[res] = @ + 1]

RECURSIVE ReleaseResults(_, _, _)
\* for _, r := range results { r.Result.Release() }
ReleaseResults(h, results, n) ==
  IF n > Len(results) THEN h
  ELSE ReleaseResults(ReleaseOne(h, results[n].Result), results, n + 1)

RECURSIVE ReleaseMap(_, _)
\* for _, r := range m { r.Release() }
ReleaseMap(h, rest) ==
  IF rest = {} THEN h
  ELSE Let(CHOOSE x \in rest : TRUE, LAMBDA id :
         ReleaseMap(ReleaseOne(h, Handle(id)), rest \ {id}))

RECURSIVE filterWalk(_, _, _, _, _)
\* lines 223-233: the callback of WalkResults, over the results walked
filterWalk(h, ck, id, rest, results) ==
  IF rest = {} THEN [h |-> h, results |-> results]
  ELSE Let(CHOOSE x \in rest : TRUE, LAMBDA cr :
         IF id \in h.m
           THEN filterWalk([h EXCEPT !.m = @ \ {id}], ck, id, rest \ {cr},
                           Append(results, LoadedResult(Handle(id), cr, ck)))
           ELSE filterWalk(h, ck, id, rest \ {cr}, results))

\* lines 234-238: a failed walk releases the results and goes on; the err of
\* the if statement is its own, the function's err stays nil
AfterWalk(cb, walkErr) ==
  [h |-> IF walkErr THEN ReleaseResults(cb.h, cb.results, 1) ELSE cb.h,
   results |-> cb.results, err |-> FALSE]

RECURSIVE filterResults(_, _, _, _)
RECURSIVE filterDeps(_, _, _, _, _, _, _)

\* lines 239-251, at dependency j of slot i (both from 1)
filterDeps(w, c, h, ck, i, j, results) ==
  IF i > Len(Deps(ck)) THEN [w |-> w, h |-> h, results |-> results, err |-> FALSE]
  ELSE IF j > Len(Deps(ck)[i]) THEN filterDeps(w, c, h, ck, i + 1, 1, results)
  ELSE Let(filterResults(w, c, h, KeyObj(Deps(ck)[i][j].key)), LAMBDA r :
         IF r.err
           THEN [w |-> r.w, h |-> ReleaseResults(r.h, results, 1), results |-> <<>>,
                 err |-> TRUE]
           ELSE filterDeps(r.w, c, r.h, ck, i, j + 1, results \o r.results))

\* lines 222-238
filterOwn(w, c, h, ck, id) ==
  Let(WalkResults(w, id), LAMBDA wr :
  Let(AfterWalk(filterWalk([h EXCEPT !.visited = @ \cup {id}], ck, id, wr.res, <<>>),
                wr.err), LAMBDA aw :
    IF aw.err THEN [w |-> wr.w, h |-> aw.h, results |-> <<>>, err |-> TRUE]
    ELSE filterDeps(wr.w, c, aw.h, ck, 1, 1, aw.results)))

filterResults(w, c, h, ck) ==
  Let(getRefID(w, c, ck), LAMBDA g :
    IF g.id \in h.visited THEN [w |-> g.w, h |-> h, results |-> <<>>, err |-> FALSE]
    ELSE filterOwn(g.w, c, h, ck, g.id))

\* the optional LoadWithParents of the result store: the handles it returns
\* are mapped under the identifiers ms
ResultLoadWithParents(w, cr, ms) ==
  IF Fails(w) \/ ~ResultExists(w, cr.ID)
    THEN [w |-> Call(w, "results.LoadWithParents"), err |-> TRUE, m |-> {}]
    ELSE [w |-> Call(w, "results.LoadWithParents"), err |-> FALSE, m |-> ms]

NoHandles == [m |-> {}, visited |-> {}, rel |-> << >>]
NoLoad(w) == [w |-> w, err |-> TRUE, results |-> <<>>, h |-> NoHandles, bulk |-> {}]
NewHandles(m) == [m |-> m, visited |-> {}, rel |-> [x \in {Handle(id) : id \in m} |-> 0]]

\* lines 293-297
ReleaseOnError(fr) == IF fr.err THEN ReleaseMap(fr.h, fr.h.m) ELSE fr.h
\* lines 298-302
ReleaseLeftovers(h) == ReleaseMap(h, h.m)

\* lines 292-304: what LoadWithParents returns after filterResults
AfterFilter(fr, m) ==
  [w |-> fr.w, err |-> FALSE, results |-> fr.results,
   h |-> ReleaseLeftovers(ReleaseOnError(fr)), bulk |-> m]

\* lines 273-277
LoadWrapped(w, c, rec, l) ==
  IF l.err THEN NoLoad(l.w)
  ELSE [w |-> l.w, err |-> FALSE,
        results |-> <<LoadedResult(l.art,
                         CacheResult(getRefID(l.w, c, rec.key).id, rec.CreatedAt),
                         rec.key)>>,
        h |-> NoHandles, bulk |-> {}]

\* lines 279-304
LoadBulk(w, c, rec, ms) ==
  Let(getRefID(w, c, rec.key), LAMBDA g :
  Let(BackendLoad(g.w, g.id, rec.ID), LAMBDA b :
    IF b.err THEN NoLoad(b.w)
    ELSE Let(ResultLoadWithParents(b.w, b.res, ms), LAMBDA l :
           IF l.err THEN NoLoad(l.w)
           ELSE AfterFilter(filterResults(l.w, c, NewHandles(l.m), rec.key), l.m))))

\* lwp: the result store has the bulk capability
LoadWithParents(w, c, rec, lwp, ms) ==
  IF ~lwp THEN LoadWrapped(w, c, rec, Load(w, c, rec))
  ELSE LoadBulk(w, c, rec, ms)

-----------------------------------------------------------------------------
(* The operations of manager M1 as actions.  Each runs the whole handler:  *)
(* f is the collaborator call that fails (0: none), pf the member map      *)
(* iterations yield first.                                                 *)

M == "M1"

\* Collaborator calls fail in at most one operation of a run, of at most
\* MaxOps operations.
Faults == {f \in 0..MaxCalls : nops < MaxOps /\ (f = 0 \/ ~faulted)}

\* A map iteration has a choice only among identifiers links lead to.
Targets == {l.dst : l \in links[M]}
Prefs == IF Cardinality(Targets) < 2 THEN {NoID} ELSE Targets

NoRet ==
  [op |-> "", key |-> newKeyWithID(""), id |-> NoID, err |-> FALSE,
   keys |-> {}, recs |-> {}, art |-> "", query |-> QueryArgs(<<>>, 0, Dg, 0),
   nAddLink |-> 0, again |-> FALSE, fresh |-> FALSE, failed |-> "",
   lwp |-> FALSE, loaded |-> <<>>, rel |-> << >>, bulk |-> {},
   checked |-> <<>>, released |-> <<>>]

\* the operation r of the run: it reached the call that fails, and minted
\* within the bound; its world becomes the state
Commit(r, f) ==
  /\ f <= r.w.calls
  /\ r.w.next <= MaxNew
  /\ links' = [links EXCEPT ![M] = r.w.links]
  /\ assoc' = [assoc EXCEPT ![M] = r.w.assoc]
  /\ rstore' = [rstore EXCEPT ![M] = r.w.rstore]
  /\ ids' = r.w.ids
  /\ nextID' = r.w.next
  /\ nops' = nops + 1
  /\ faulted' = (faulted \/ f # 0)
  /\ UNCHANGED <<th, mu, overlap, kmu, cmu, go>>

\* What the durable stores of M1 hold when the manager is constructed:
\* nothing, or what an earlier process left by Save(k3, "a1"), whose key it
\* had resolved to the identifier "id0".
EmptyStore == [links |-> {}, assoc |-> {}, rstore |-> << >>]
K3Store ==
  [links  |-> {[src |-> rootKey(Dg, 0), l |-> CacheInfoLink(0, 0, Dk, "s"), dst |-> "id0"]},
   assoc  |-> {[id |-> "id0", res |-> CacheResult(ResultID("a1"), 1)]},
   rstore |-> [x \in {ResultID("a1")} |-> "a1"]]
PriorStores == {EmptyStore, K3Store}

\* the goroutines calling the manager
Threads == {"t1", "t2"}
NoCall == [op |-> "", key |-> newKeyWithID(""), art |-> "", rec |-> NoRec,
           query |-> QueryArgs(<<>>, 0, Dg, 0)]
Idle == [pc |-> "idle", call |-> NoCall, res |-> CacheResult("", 0), todo |-> {},
         outs |-> {}, recs |-> {}, runs |-> 0]

\* a goroutine that is in no getID
Resting == [stage |-> "idle", c |-> "M1", mode |-> "", k |-> "", frames |-> <<>>,
            got |-> NoID]

\* a manager constructed over the store st
InitOver(st) ==
  /\ links = [c \in Managers |-> IF c = M THEN st.links ELSE {}]
  /\ assoc = [c \in Managers |-> IF c = M THEN st.assoc ELSE {}]
  /\ rstore = [c \in Managers |-> IF c = M THEN st.rstore ELSE << >>]
  /\ ids = [k \in Keys |-> [c \in Managers |-> NoID]]
  /\ nextID = 0
  /\ saved = [c \in Managers |-> {}]
  /\ ret = NoRet
  /\ nops = 0
  /\ faulted = FALSE
  /\ th = [t \in Threads |-> Idle]
  /\ mu = [w |-> "", r |-> {}]
  /\ overlap = {}
  /\ kmu = [k \in Keys |-> ""]
  /\ cmu = [c \in Managers |-> [w |-> "", r |-> {}]]
  /\ go = [t \in Threads |-> Resting]

Init == \E st \in PriorStores : InitOver(st)

\* c.getID(k)
DoResolve(k) ==
  \E f \in Faults, pf \in Prefs :
    \E r \in {getID(World(M, f, FALSE, pf), M, k)} :
      /\ Commit(r, f)
      /\ ret' = [NoRet EXCEPT !.op = "getID", !.key = KeyObj(k), !.id = r.id,
                              !.failed = r.w.failed]
      /\ UNCHANGED saved

\* c.ensurePersistentKey(k)
DoEnsurePersistentKey(k) ==
  \E f \in Faults, pf \in Prefs :
    \E r \in {ensurePersistentKey(World(M, f, FALSE, pf), M, k)} :
      /\ Commit(r, f)
      /\ ret' = [NoRet EXCEPT !.op = "ensurePersistentKey", !.key = KeyObj(k),
                              !.id = r.w.ids[k][M], !.err = r.err,
                              !.nAddLink = r.w.nAddLink, !.failed = r.w.failed,
                              !.again = (ret.op = "ensurePersistentKey" /\ ~ret.err
                                         /\ ret.key = KeyObj(k))]
      /\ UNCHANGED saved

DoSave(k, a, t) ==
  \E f \in Faults, pf \in Prefs :
    \E r \in {Save(World(M, f, FALSE, pf), M, k, a, t)} :
      /\ Commit(r, f)
      /\ ret' = [NoRet EXCEPT !.op = "Save", !.key = KeyObj(k), !.id = r.w.ids[k][M],
                              !.err = r.err, !.failed = r.w.failed,
                              !.recs = IF r.err THEN {} ELSE {r.rec},
                              !.art = a, !.nAddLink = r.w.nAddLink,
                              !.fresh = (\A x \in assoc[M] : x.res.ID # ResultID(a))]
      /\ saved' = IF r.err THEN saved ELSE [saved EXCEPT ![M] = @ \cup {k}]

\* the Query calls of the callers
Queries ==
  { QueryArgs(<<>>, 0, Dg, 0),
    QueryArgs(<<CacheKeyWithSelector("g", "")>>, 0, Dp, 0),
    QueryArgs(<<CacheKeyWithSelector("p", "s")>>, 0, Dk, 0),
    QueryArgs(<<CacheKeyWithSelector("p", "s"), CacheKeyWithSelector("g", "s")>>, 0, Dk, 0) }

DoQuery(q) ==
  \E f \in Faults, pf \in Prefs :
    \E r \in {Query(World(M, f, FALSE, pf), M, q)} :
      /\ Commit(r, f)
      /\ ret' = [NoRet EXCEPT !.op = "Query", !.query = q, !.err = r.err,
                              !.keys = r.keys, !.failed = r.w.failed,
                              !.nAddLink = r.w.nAddLink]
      /\ UNCHANGED saved

\* on one of the callers' keys, or on a key the last Query returned
DoRecords(ck) ==
  \E f \in Faults : \E pt \in {x \in BOOLEAN : f = 0 => ~x} :
    \E r \in {Records(World(M, f, pt, NoID), M, ck)} :
      /\ Commit(r, f)
      /\ ret' = [NoRet EXCEPT !.op = "Records", !.key = ck,
                              !.id = getRefID(r.w, M, ck).id, !.err = r.err,
                              !.recs = r.recs, !.failed = r.w.failed]
      /\ UNCHANGED saved

\* on a record the last Save or Records returned
DoLoad(rec) ==
  \E f \in Faults :
    \E r \in {Load(World(M, f, FALSE, NoID), M, rec)} :
      /\ Commit(r, f)
      /\ ret' = [NoRet EXCEPT !.op = "Load", !.key = rec.key, !.recs = {rec},
                              !.err = r.err, !.art = r.art, !.failed = r.w.failed]
      /\ UNCHANGED saved

\* The identifiers a bulk mapping may hold handles under: those of the keys of
\* the record's graph, and one of no key of it.
RECURSIVE Ancestors(_)
Ancestors(ck) ==
  {ck} \cup UNION {UNION {Ancestors(KeyObj(Deps(ck)[i][j].key)) : j \in 1..Len(Deps(ck)[i])}
                     : i \in 1..Len(Deps(ck))}
GraphIDs(ck) ==
  {IF x.name = "" THEN x.ID ELSE ids[x.name][M] : x \in Ancestors(ck)} \ {NoID}
BulkMaps(rec) == SUBSET (GraphIDs(rec.key) \cup {"other"})

\* on a record the last Save or Records returned
DoLoadWithParents(rec, lwp, ms) ==
  \E f \in Faults : \E pt \in {x \in BOOLEAN : f = 0 => ~x} :
    \E r \in {LoadWithParents(World(M, f, pt, NoID), M, rec, lwp, ms)} :
      /\ Commit(r, f)
      /\ ret' = [NoRet EXCEPT !.op = "LoadWithParents", !.key = rec.key,
                              !.recs = {rec}, !.err = r.err, !.failed = r.w.failed,
                              !.lwp = lwp, !.loaded = r.results, !.rel = r.h.rel,
                              !.bulk = r.bulk]
      /\ UNCHANGED saved

\* c.ReleaseUnreferenced(ctx)
DoReleaseUnreferenced ==
  \E f \in Faults : \E pt \in {x \in BOOLEAN : f = 0 => ~x} :
    \E r \in {ReleaseUnreferenced(World(M, f, pt, NoID), M)} :
      /\ Commit(r, f)
      /\ ret' = [NoRet EXCEPT !.op = "ReleaseUnreferenced", !.err = r.err,
                              !.failed = r.w.failed, !.checked = r.acc.checked,
                              !.released = r.acc.released]
      /\ UNCHANGED saved

\* an artifact disappears from the result store (its own garbage collection);
\* the callers keep the records they hold
ResultDeleted(rid) ==
  /\ nops < MaxOps
  /\ rstore' = [rstore EXCEPT ![M] = [x \in DOMAIN @ \ {rid} |-> @[x]]]
  /\ ret' = [NoRet EXCEPT !.op = "deleted", !.recs = ret.recs]
  /\ nops' = nops + 1
  /\ UNCHANGED <<links, assoc, ids, nextID, saved, faulted, th, mu, overlap,
               kmu, cmu, go>>

Next ==
  \/ \E k \in Callers : DoResolve(k)
  \/ \E k \in Callers : DoEnsurePersistentKey(k)
  \/ \E k \in Callers, a \in Artifacts, t \in Times : DoSave(k, a, t)
  \/ \E q \in Queries : DoQuery(q)
  \/ \E ck \in {KeyObj(k) : k \in Callers} \cup ret.keys : DoRecords(ck)
  \/ \E rec \in ret.recs : DoLoad(rec)
  \/ \E rec \in ret.recs, lwp \in BOOLEAN :
       \E ms \in IF lwp THEN BulkMaps(rec) ELSE {{}} : DoLoadWithParents(rec, lwp, ms)
  \/ \E rid \in DOMAIN rstore[M] : ResultDeleted(rid)
  \/ DoReleaseUnreferenced

Spec == Init /\ [][Next]_vars

-----------------------------------------------------------------------------
(* Resolution of the dependency-free keys, and the keys Query makes. *)

RootKeys == {k \in Keys : Len(Key[k].deps) = 0} \ {"q1", "q2", "q3", "q4"}

NextRoot ==
  \/ \E k \in RootKeys : DoResolve(k)
  \/ \E q \in Queries : DoQuery(q)

SpecRoot == Init /\ [][NextRoot]_vars

-----------------------------------------------------------------------------
(* ReleaseUnreferenced as NewCacheManager runs it, over the stores another *)
(* process may have left: associations of some results under some          *)
(* identifiers, with some of the artifacts gone.                           *)

GCIDs == {"id0", rootKey(Dg, 0)}
GCAssocs == {[id |-> id, res |-> CacheResult(ResultID(a), 1)] : id \in GCIDs, a \in Artifacts}
GCStores ==
  {[links |-> {}, assoc |-> as,
    rstore |-> [x \in {ResultID(a) : a \in arts} |->
                  CHOOSE a \in arts : ResultID(a) = x]] :
     as \in SUBSET GCAssocs, arts \in SUBSET Artifacts}

InitGC == \E st \in GCStores : InitOver(st)

NextGC == DoReleaseUnreferenced

SpecGC == InitGC /\ [][NextGC]_vars

-----------------------------------------------------------------------------
(* getIDFromDeps on the key x of two slots of two alternatives, over the   *)
(* link stores that link the four parents to some of a few identifiers.    *)

MaxTargets == 2      \* identifiers the parents of x may be linked to
TargetIDs == {<<"X", "Y", "Z">>[n] : n \in 1..MaxTargets}

\* the link of dependency j of slot i of x to identifier t
XLink(i, j, t) ==
  [src |-> Key[Key["x"].deps[i][j].key].ID, l |-> DepLink("x", i, j), dst |-> t]
XLinks == {XLink(i, j, t) : i \in 1..2, j \in 1..2, t \in TargetIDs}

InitDerive ==
  \E ls \in SUBSET XLinks : InitOver([links |-> ls, assoc |-> {}, rstore |-> << >>])

\* c.getIDFromDeps(x)
DoDerive(k) ==
  \E f \in Faults, pf \in Prefs :
    \E r \in {getIDFromDeps(World(M, f, FALSE, pf), M, k)} :
      /\ Commit(r, f)
      /\ ret' = [NoRet EXCEPT !.op = "getIDFromDeps", !.key = KeyObj(k), !.id = r.id,
                              !.failed = r.w.failed]
      /\ UNCHANGED saved

NextDerive == DoDerive("x")

SpecDerive == InitDerive /\ [][NextDerive]_vars

-----------------------------------------------------------------------------
(* The operations as goroutines run them: the calls of each operation in   *)
(* steps, under c.mu where the operation takes it.                         *)

MaxRuns == 1         \* operations one goroutine runs

\* the calls of the goroutines; Load and LoadWithParents are of a record a
\* Save or Records has returned
Calls ==
  {[NoCall EXCEPT !.op = "Save", !.key = KeyObj(k), !.art = "a1"] : k \in {"g", "p"}}
  \cup {[NoCall EXCEPT !.op = "Query", !.query = q] :
          q \in {QueryArgs(<<>>, 0, Dg, 0),
                 QueryArgs(<<CacheKeyWithSelector("g", "")>>, 0, Dp, 0)}}
  \cup {[NoCall EXCEPT !.op = "Records", !.key = KeyObj(k)] : k \in {"g", "p"}}
  \cup {[NoCall EXCEPT !.op = op, !.rec = rec] :
          op \in {"Load", "LoadWithParents"}, rec \in UNION {th[u].recs : u \in Threads}}

\* where an operation starts: Save at line 323, Query at 87, Load at 192,
\* LoadWithParents at 279, Records (which takes no lock) at 159
FirstPC(op) ==
  IF op = "Save" THEN "Lock"
  ELSE IF op = "Records" THEN "WalkResults"
  ELSE "RLock"

At(t, pc) == th[t].pc = pc
Goto(t, pc) == [th EXCEPT ![t].pc = pc]

\* the goroutines amid the backend calls of a Save: results.Save is done, the
\* last call of ensurePersistentKey is not
MidSave == {u \in Threads : th[u].pc \in {"AddResult", "ensurePersistentKey"}}

\* goroutine t makes a backend call of the operation it is in
BackendCall(t) ==
  overlap' = IF MidSave \ {t} # {} THEN overlap \cup {th[t].call.op} ELSE overlap

\* the world r.w becomes the state of the stores
Stores(w) ==
  /\ links' = [links EXCEPT ![M] = w.links]
  /\ assoc' = [assoc EXCEPT ![M] = w.assoc]
  /\ rstore' = [rstore EXCEPT ![M] = w.rstore]
  /\ ids' = w.ids
  /\ nextID' = w.next
  /\ w.next <= MaxNew
  /\ UNCHANGED <<saved, ret, nops, faulted>>

Begin(t, call) ==
  /\ At(t, "idle")
  /\ th[t].runs < MaxRuns
  /\ th' = [th EXCEPT ![t] = [Idle EXCEPT !.pc = FirstPC(call.op), !.call = call,
                                          !.runs = th[t].runs + 1]]
  /\ UNCHANGED <<links, assoc, rstore, ids, nextID, saved, ret, nops, faulted, mu, overlap,
               kmu, cmu, go>>

\* c.mu.RLock()
RLock(t) ==
  /\ At(t, "RLock")
  /\ mu.w = ""
  /\ mu' = [mu EXCEPT !.r = @ \cup {t}]
  /\ th' = Goto(t, th[t].call.op)
  /\ UNCHANGED <<links, assoc, rstore, ids, nextID, saved, ret, nops, faulted, overlap,
               kmu, cmu, go>>

\* the deferred c.mu.RUnlock()
RUnlock(t) ==
  /\ At(t, "RUnlock")
  /\ mu' = [mu EXCEPT !.r = @ \ {t}]
  /\ th' = Goto(t, "idle")
  /\ UNCHANGED <<links, assoc, rstore, ids, nextID, saved, ret, nops, faulted, overlap,
               kmu, cmu, go>>

\* c.mu.Lock()
Lock(t) ==
  /\ At(t, "Lock")
  /\ mu.w = "" /\ mu.r = {}
  /\ mu' = [mu EXCEPT !.w = t]
  /\ th' = Goto(t, "results.Save")
  /\ UNCHANGED <<links, assoc, rstore, ids, nextID, saved, ret, nops, faulted, overlap,
               kmu, cmu, go>>

\* the deferred c.mu.Unlock()
Unlock(t) ==
  /\ At(t, "Unlock")
  /\ mu' = [mu EXCEPT !.w = ""]
  /\ th' = Goto(t, "idle")
  /\ UNCHANGED <<links, assoc, rstore, ids, nextID, saved, ret, nops, faulted, overlap,
               kmu, cmu, go>>

\* line 326
SaveResult(t) ==
  /\ At(t, "results.Save")
  /\ \E s \in {ResultSave(Now0, th[t].call.art, 1)} :
       /\ Stores(s.w)
       /\ th' = [th EXCEPT ![t].pc = "AddResult", ![t].res = s.res]
  /\ UNCHANGED <<mu, overlap, kmu, cmu, go>>

\* line 330
SaveAddResult(t) ==
  /\ At(t, "AddResult")
  /\ \E a \in {AddResultUnder(getID(Now0, M, th[t].call.key.name), th[t].res)} :
       Stores(a.w)
  /\ th' = Goto(t, "ensurePersistentKey")
  /\ UNCHANGED <<mu, overlap, kmu, cmu, go>>

\* lines 334-348
SaveEnsure(t) ==
  /\ At(t, "ensurePersistentKey")
  /\ \E e \in {ensurePersistentKey(Now0, M, th[t].call.key.name)} : Stores(e.w)
  /\ th' = [th EXCEPT ![t].pc = "Unlock",
                      ![t].recs = {CacheRecord(th[t].res.ID, th[t].call.key,
                                               th[t].res.CreatedAt)}]
  /\ UNCHANGED <<mu, overlap, kmu, cmu, go>>

\* lines 90-140, under the read lock
QueryLocked(t) ==
  /\ At(t, "Query")
  /\ \E pf \in Prefs : \E r \in {Query(World(M, 0, FALSE, pf), M, th[t].call.query)} :
       Stores(r.w)
  /\ BackendCall(t)
  /\ th' = Goto(t, "RUnlock")
  /\ UNCHANGED <<mu, kmu, cmu, go>>

\* lines 195-200, under the read lock
LoadLocked(t) ==
  /\ At(t, "Load")
  /\ \E r \in {Load(Now0, M, th[t].call.rec)} : Stores(r.w)
  /\ BackendCall(t)
  /\ th' = Goto(t, "RUnlock")
  /\ UNCHANGED <<mu, kmu, cmu, go>>

\* lines 282-304, under the read lock
LoadWithParentsLocked(t) ==
  /\ At(t, "LoadWithParents")
  /\ \E ms \in BulkMaps(th[t].call.rec) :
       \E r \in {LoadWithParents(Now0, M, th[t].call.rec, TRUE, ms)} : Stores(r.w)
  /\ BackendCall(t)
  /\ th' = Goto(t, "RUnlock")
  /\ UNCHANGED <<mu, kmu, cmu, go>>

\* line 159: WalkResults of Records finds the results its callback will get
RecordsWalkResults(t) ==
  /\ At(t, "WalkResults")
  /\ \E g \in {getRefID(Now0, M, th[t].call.key)} :
       \E wr \in {WalkResults(g.w, g.id)} :
         /\ Stores(wr.w)
         /\ th' = [th EXCEPT ![t].pc = "callback", ![t].todo = wr.res]
  /\ BackendCall(t)
  /\ UNCHANGED <<mu, kmu, cmu, go>>

\* lines 160-169: the callback on one result
RecordsCallback(t, r) ==
  /\ At(t, "callback")
  /\ r \in th[t].todo
  /\ \E cb \in {recordsWalk(Now0, th[t].call.key, {r}, {})} :
       /\ Stores(cb.w)
       /\ th' = [th EXCEPT ![t].todo = @ \ {r}, ![t].outs = @ \cup cb.outs]
  /\ BackendCall(t)
  /\ UNCHANGED <<mu, kmu, cmu, go>>

\* line 174
RecordsDone(t) ==
  /\ At(t, "callback")
  /\ th[t].todo = {}
  /\ th' = [th EXCEPT ![t].pc = "idle", ![t].recs = th[t].outs]
  /\ UNCHANGED <<links, assoc, rstore, ids, nextID, saved, ret, nops, faulted, mu, overlap,
               kmu, cmu, go>>

NextConc ==
  \E t \in Threads :
    \/ \E call \in Calls : Begin(t, call)
    \/ RLock(t)
    \/ RUnlock(t)
    \/ Lock(t)
    \/ Unlock(t)
    \/ SaveResult(t)
    \/ SaveAddResult(t)
    \/ SaveEnsure(t)
    \/ QueryLocked(t)
    \/ LoadLocked(t)
    \/ LoadWithParentsLocked(t)
    \/ RecordsWalkResults(t)
    \/ \E r \in th[t].todo : RecordsCallback(t, r)
    \/ RecordsDone(t)

SpecConc == Init /\ [][NextConc]_vars

-----------------------------------------------------------------------------
(* Claims about the operations, checked under Spec.  A claim about what a  *)
(* later call returns is checked by running that call, without a failing   *)
(* collaborator, from the state the earlier operation left.                *)

NowPref(pf) == World(M, 0, FALSE, pf)

AssocUnder(id) == {a \in assoc[M] : a.id = id}
Referenced(resultID) == \E a \in assoc[M] : a.res.ID = resultID
SavedOK(k) == ret.op = "Save" /\ ~ret.err /\ ret.key = KeyObj(k)

\* Load of a record returns the artifact
LoadsArtifact(w, rec, a) ==
  Let(Load(w, M, rec), LAMBDA l : ~l.err /\ l.art = a)

\* Records on key ck returns, without error, records of which one is of
\* result rid, exactly one if only is set, and that one loads artifact a
RecordsHave(w, ck, rid, a, only) ==
  Let(Records(w, M, ck), LAMBDA rs :
    /\ ~rs.err
    /\ \E rec \in rs.recs : rec.ID = rid
    /\ only => Cardinality(rs.recs) = 1
    /\ \A rec \in rs.recs : rec.ID = rid => LoadsArtifact(rs.w, rec, a))

\* C1: after a successful Save of an artifact under the dependency-free key g,
\* whose ID is the root identifier of (Dg, 0), a Query with no deps for (Dg, 0)
\* returns exactly one key, Records on that key returns the saved record (and
\* only it, when the store holds no other result under that identifier), and
\* Load of that record returns the saved artifact.
C1_SaveQueryRecordsLoad ==
  SavedOK("g") =>
    Let(Query(Now0, M, QueryArgs(<<>>, 0, Dg, 0)), LAMBDA q :
      /\ ~q.err
      /\ Cardinality(q.keys) = 1
      /\ \A ck \in q.keys :
           RecordsHave(q.w, ck, ResultID(ret.art), ret.art,
                       Cardinality(AssocUnder(rootKey(Dg, 0))) = 1))

\* the Save has acted on a store that held links already, and its result is
\* the only one under the root identifier
C1_Witness ==
  /\ SavedOK("g")
  /\ links[M] # {}
  /\ Cardinality(AssocUnder(rootKey(Dg, 0))) = 1

\* the keys with one dependency (parent at slot 0)
Children == {"p", "k1", "k2", "k3"}
ParentQuery(k) == QueryArgs(Key[k].deps[1], 0, Key[k].digest, Key[k].output)

\* C2: after a successful Save of an artifact under a key child whose only
\* dependency is parent at slot 0 with selector s, Query(deps = [parent@s],
\* input 0, child's digest and output) returns a key whose identifier is the
\* one child resolves to, and Records on that key contains the saved result.
C2_QueryFindsSavedChild ==
  \A k \in Children :
    SavedOK(k) =>
      Let(Query(Now0, M, ParentQuery(k)), LAMBDA q :
        /\ ~q.err
        /\ \E ck \in q.keys :
             /\ ck.ID = ids[k][M]
             /\ RecordsHave(q.w, ck, ResultID(ret.art), ret.art, FALSE))

\* the Save of a child of a key with dependencies of its own has acted
C2_Witness == SavedOK("k1") /\ ids["k1"][M] # NoID /\ ids["p"][M] # NoID

\* the identifiers the parent of k1 and k2 links to with their label
Candidates ==
  {l.dst : l \in {x \in links[M] : x.src = ids["p"][M] /\ x.l = DepLink("k1", 1, 1)}}

\* C3 as stated: in every state after Save(k1) has succeeded, k2 (same digest,
\* output, parent and selector as k1) resolves to the identifier of k1,
\* whatever calls came before.
C3_ConvergesAlways ==
  "k1" \in saved[M] =>
    \A pf \in Prefs : getID(NowPref(pf), M, "k2").id = ids["k1"][M]

\* C3, amended: in every state after Save(k1) has succeeded in which k2 has
\* not been resolved yet, a resolution of k2 in which no WalkLinks call fails
\* returns one of the identifiers the parent links to with the key's label,
\* of which the identifier of k1 is one: the identifier of k1 itself when it
\* is the only one.
C3_ConvergesWhenUnresolved ==
  ("k1" \in saved[M] /\ ids["k2"][M] = NoID) =>
    /\ ids["k1"][M] \in Candidates
    /\ \A pf \in Prefs : getID(NowPref(pf), M, "k2").id \in Candidates

\* Save(k1) has acted and k2 is still to be resolved
C3_Witness == SavedOK("k1") /\ ids["k2"][M] = NoID /\ Candidates = {ids["k1"][M]}

\* the keys of the callers in the dependency graph of k
RECURSIVE Graph(_)
Graph(k) ==
  {k} \cup UNION {UNION {Graph(Key[k].deps[i][j].key) : j \in 1..Len(Key[k].deps[i])}
                    : i \in 1..Len(Key[k].deps)}

EdgeLinked(x, i, j) ==
  HasLink(Now0, ids[Key[x].deps[i][j].key][M], DepLink(x, i, j), ids[x][M])

\* C4: after a successful Save(k), for every key x of k's dependency graph and
\* every (parent, selector) of every slot of x, the link store holds the link
\* from the parent's identifier to x's identifier labeled with the slot, x's
\* output and digest, and the selector.
C4_AllEdgesLinked ==
  (ret.op = "Save" /\ ~ret.err) =>
    \A x \in Graph(ret.key.name) :
      \A i \in 1..Len(Key[x].deps) : \A j \in 1..Len(Key[x].deps[i]) :
        EdgeLinked(x, i, j)

\* C5: in LoadWithParents on the bulk path, when a WalkResults of the
\* traversal fails after the bulk mapping was fetched, LoadWithParents returns
\* an error, every handle of the mapping has been released, and none is
\* returned.
C5_NoLeakOnWalkFailure ==
  (ret.op = "LoadWithParents" /\ ret.lwp /\ ret.failed = "WalkResults") =>
    /\ ret.err
    /\ \A x \in DOMAIN ret.rel : ret.rel[x] >= 1
    /\ ret.loaded = <<>>

\* C6: after Records(key) returns without error, no result association is
\* left under the key's identifier whose artifact the result store does not
\* hold, and the records returned are those of the associations under that
\* identifier whose artifact it holds.
C6_RecordsSelfHealing ==
  (ret.op = "Records" /\ ~ret.err) =>
    /\ \A a \in AssocUnder(ret.id) : ResultExists(Now0, a.res.ID)
    /\ ret.recs = {CacheRecord(a.res.ID, ret.key, a.res.CreatedAt) : a \in AssocUnder(ret.id)}

\* C9: when ensurePersistentKey(k) has succeeded, a second
\* ensurePersistentKey(k) right after it issues no AddLink.
C9_EnsureIdempotent == ret.again => (~ret.err /\ ret.nAddLink = 0)

\* the second call on a key with dependencies two levels deep
C9_Witness == ret.again /\ ret.key = KeyObj("k1") /\ EdgeLinked("k1", 1, 1)

\* C10: when Save fails at AddResult or at an AddLink of the link persistence,
\* after the artifact was saved to the result store, no result association of
\* the link store refers to that artifact (none did before the Save).
C10_FailedSaveUnreferenced ==
  (ret.op = "Save" /\ ret.failed \in {"AddResult", "AddLink"} /\ ret.fresh) =>
    /\ ret.err
    /\ ~Referenced(ResultID(ret.art))

-----------------------------------------------------------------------------
(* The claim about the manager's lock, checked under SpecConc. *)

\* C7: Query, Records, Load and LoadWithParents hold the read lock of the
\* manager for their backend calls and Save holds the write lock, so none of
\* the four makes a backend call between the first and the last backend call
\* of a Save another goroutine is in.
C7_SaveExclusive == overlap = {}

-----------------------------------------------------------------------------
(* The claim about getIDFromDeps on two slots of two alternatives, checked *)
(* under SpecDerive.                                                       *)

Linked(i, j, t) == XLink(i, j, t) \in links[M]
\* linked from all four parents
FullyLinked(t) == \A i \in 1..2, j \in 1..2 : Linked(i, j, t)
\* linked from a parent of slot 0 and from each parent of slot 1
Surviving(t) == (\E j \in 1..2 : Linked(1, j, t)) /\ (\A j \in 1..2 : Linked(2, j, t))
\* linked from some of the four parents only
PartlyLinked(t) == ~FullyLinked(t) /\ \E i \in 1..2, j \in 1..2 : Linked(i, j, t)
\* getIDFromDeps(x) has run, no WalkLinks failing, with X the one identifier
\* linked from all four parents
DerivedWithOnly(X) ==
  /\ ret.op = "getIDFromDeps" /\ ret.failed = ""
  /\ FullyLinked(X)
  /\ \A t \in TargetIDs \ {X} : ~FullyLinked(t)

\* C8 as stated: when exactly one identifier X is linked from all four
\* parent/slot combinations, and others from some of the four only,
\* getIDFromDeps returns X.
C8_ReturnsFullMatch ==
  \A X \in TargetIDs : DerivedWithOnly(X) => ret.id = X

\* C8, amended: when exactly one identifier X is linked from all four
\* parent/slot combinations and no WalkLinks fails, getIDFromDeps returns an
\* identifier linked from at least one parent of slot 0 and from both parents
\* of slot 1: X when it is the only such identifier, and otherwise X or
\* another of them, which the other parent of slot 0 need not link to.
C8_ReturnsSurvivor ==
  \A X \in TargetIDs :
    DerivedWithOnly(X) =>
      /\ Surviving(ret.id)
      /\ (\A t \in TargetIDs \ {X} : ~Surviving(t)) => ret.id = X

\* X is returned although another identifier is linked from some parents
C8_Witness ==
  \E X \in TargetIDs :
    /\ DerivedWithOnly(X)
    /\ ret.id = X
    /\ \E t \in TargetIDs \ {X} : PartlyLinked(t) /\ Linked(1, 1, t) /\ Linked(2, 1, t)

-----------------------------------------------------------------------------
(* Claims about what one operation does to the stores, checked under Spec  *)
(* as properties of its step: unprimed is the state before the call,       *)
(* primed the state after it and what it returned.                         *)

\* the step is a call of one of the operations ops
StepOf(ops) == nops' = nops + 1 /\ ret'.op \in ops

\* dependency n of the Query of the step: its identifier and its label
QDepID(n) == ids'[ret'.query.deps[n].key][M]
QDepLabel(n) == QueryLabel(ret'.query, ret'.query.deps[n])
QDeps == 1..Len(ret'.query.deps)

\* the identifiers the dependencies of the Query reached before the call
QueryReached ==
  {l.dst : l \in {x \in links[M] : \E n \in QDeps : x.src = QDepID(n) /\ x.l = QDepLabel(n)}}

\* C11: when a Query with non-empty deps returns without error, the link
\* store holds, for every identifier returned and every dependency, the link
\* from the dependency's identifier to it with the label of the Query and the
\* dependency's selector, and the identifiers returned are exactly those the
\* dependencies reached by their labels before the call.
C11_QueryCrossLinks ==
  [][(StepOf({"Query"}) /\ ~ret'.err /\ Len(ret'.query.deps) > 0) =>
       /\ {k.ID : k \in ret'.keys} = QueryReached
       /\ \A k \in ret'.keys : \A n \in QDeps :
            [src |-> QDepID(n), l |-> QDepLabel(n), dst |-> k.ID] \in links'[M]]_vars

\* a Query of two dependencies has returned a key and added a link for it
C11_Witness ==
  /\ ret.op = "Query" /\ ~ret.err
  /\ Len(ret.query.deps) = 2
  /\ ret.keys # {}
  /\ ret.nAddLink > 0

\* identifiers of identity.NewID that no link of the store holds yet
InSomeLink(id) == \E l \in links[M] : l.src = id \/ l.dst = id
Provisional(id) ==
  /\ \E n \in 1..nextID' : id = "id" \o ToString(n)
  /\ ~InSomeLink(id)
AddedLinks == links'[M] \ links[M]

\* C12 as stated: no Query, Records, Load, LoadWithParents or
\* ReleaseUnreferenced call adds a link whose source or target is an
\* identifier getIDFromDeps minted and no link persistence has linked.
C12_OnlySaveLinksProvisional ==
  [][StepOf({"Query", "Records", "Load", "LoadWithParents", "ReleaseUnreferenced"}) =>
       \A l \in AddedLinks : ~Provisional(l.src) /\ ~Provisional(l.dst)]_vars

\* C12, amended: Records, Load, LoadWithParents and ReleaseUnreferenced (and
\* getID by itself) add no link; a link a Query adds leads from the identifier
\* of one of its dependencies, with that dependency's label, to an identifier
\* some link led to before the call.  The dependency's identifier may be one
\* getIDFromDeps minted in that call.
C12_OnlySaveOrQueryLinks ==
  [][/\ StepOf({"Records", "Load", "LoadWithParents", "ReleaseUnreferenced", "getID"}) =>
          AddedLinks = {}
     /\ StepOf({"Query"}) =>
          \A l \in AddedLinks :
            /\ l.dst \in {x.dst : x \in links[M]}
            /\ \E n \in QDeps : l.src = QDepID(n) /\ l.l = QDepLabel(n)]_vars

\* a Query has linked a dependency whose identifier was minted in a run where
\* nothing was saved
C12_Witness ==
  /\ ret.op = "Query" /\ ~ret.err /\ ret.nAddLink > 0
  /\ saved[M] = {}
  /\ \E l \in links[M] : l.src = "id1"

-----------------------------------------------------------------------------
(* The claim about ReleaseUnreferenced, checked under SpecGC. *)

NoRepeat(seq) == \A i, j \in 1..Len(seq) : seq[i] = seq[j] => i = j

\* C13: after ReleaseUnreferenced returns without error, no result
\* association is left, under any identifier, whose artifact the result store
\* does not hold, and c.results.Exists and c.backend.Release were called at
\* most once with each result ID.
C13_NoStaleAfterRelease ==
  (ret.op = "ReleaseUnreferenced" /\ ~ret.err) =>
    /\ \A a \in assoc[M] : ResultExists(Now0, a.res.ID)
    /\ NoRepeat(ret.checked)
    /\ NoRepeat(ret.released)

-----------------------------------------------------------------------------
(* The two paths of LoadWithParents compared, under Spec, on the records   *)
(* the last Save or Records returned.                                      *)

\* the bulk path when the mapping holds the record's own artifact only
BulkOwn(rec) ==
  LoadWithParents(Now0, M, rec, TRUE, {getRefID(Now0, M, rec.key).id})
Fallback(rec) == LoadWithParents(Now0, M, rec, FALSE, {})

\* C14: for a record whose bulk mapping holds the record's own artifact only,
\* the fallback path and the bulk path of LoadWithParents both fail or both
\* return one LoadedResult, of the same CacheKey and the same CacheResult,
\* which is the stored one: the record's result ID and CreatedAt.  (The
\* Result of the bulk path is the handle of the mapping, that of the fallback
\* the artifact loaded: they are not compared.)
C14_FallbackEquivalent ==
  \A rec \in ret.recs :
    Let(BulkOwn(rec), LAMBDA b : Let(Fallback(rec), LAMBDA f :
      /\ b.err = f.err
      /\ ~b.err =>
           /\ Len(b.results) = 1 /\ Len(f.results) = 1
           /\ f.results[1].CacheKey = b.results[1].CacheKey
           /\ f.results[1].CacheResult = b.results[1].CacheResult
           /\ f.results[1].CacheResult = CacheResult(rec.ID, rec.CreatedAt)))

-----------------------------------------------------------------------------
(* The claim about the dependency-free keys, checked under SpecRoot. *)

Digests == {Key[k].digest : k \in Keys}
Outputs == {0, 1}
RootID(k) == rootKey(Key[k].digest, Key[k].output)

\* C15 as stated: a dependency-free key always resolves to the root
\* identifier of its (digest, output), so do the dependency-free keys of
\* (digest, output) a Query returns, and distinct (digest, output) have
\* distinct root identifiers.
C15_RootDeterminism ==
  /\ \A k \in RootKeys : ids[k][M] # NoID => ids[k][M] = RootID(k)
  /\ (ret.op = "Query" /\ ~ret.err) =>
       \A ck \in ret.keys :
         getRefID(Now0, M, ck).id = rootKey(ret.query.dgst, ret.query.output)
  /\ \A k1, k2 \in RootKeys :
       (ids[k1][M] # NoID /\ ids[k2][M] # NoID
        /\ <<Key[k1].digest, Key[k1].output>> # <<Key[k2].digest, Key[k2].output>>)
         => ids[k1][M] # ids[k2][M]

\* C15, amended: a dependency-free key built with the root identifier of its
\* (digest, output) as its ID resolves to that identifier on every call, on
\* every object of the same (digest, output), "random:" digests passed
\* through; a key Query returns for an identifier it walked to resolves to
\* that identifier, not to a root identifier; distinct (digest, output) have
\* distinct root identifiers unless they are of the same "random:" digest,
\* whose root identifier does not depend on the output.
C15_RootDeterminismOfRootKeys ==
  /\ \A k \in RootKeys : ids[k][M] # NoID => ids[k][M] = RootID(k)
  /\ (ret.op = "getID" /\ ret.key.name \in RootKeys) => ret.id = RootID(ret.key.name)
  /\ \A k \in RootKeys : Key[k].digest.alg = "random" => RootID(k) = DigestString(Key[k].digest)
  /\ ret.op = "Query" => \A ck \in ret.keys : getRefID(Now0, M, ck).id = ck.ID
  /\ \A d1, d2 \in Digests : \A o1, o2 \in Outputs :
       (<<d1, o1>> # <<d2, o2>> /\ ~(d1 = d2 /\ d1.alg = "random"))
         => rootKey(d1, o1) # rootKey(d2, o2)

\* two objects of one (digest, output) are resolved, the second after the
\* first, to one identifier
C15_Witness ==
  /\ ret.op = "getID" /\ ret.key.name = "g2"
  /\ ids["g"][M] # NoID
  /\ ids["g2"][M] = ids["g"][M]

-----------------------------------------------------------------------------
(* Query without dependencies, under Spec. *)

RootQueryStep == StepOf({"Query"}) /\ Len(ret'.query.deps) = 0
QRoot(q) == rootKey(q.dgst, q.output)

\* C16: a Query with empty deps returns no error; it returns exactly one key,
\* carrying (and resolving to) the root identifier of (digest, output), when
\* that identifier exists in the link store, and no key when it does not; it
\* mints no identifier and leaves the links, the result associations, the
\* result store and the identities of the keys as they were.
C16_RootQueryPure ==
  [][RootQueryStep =>
       /\ ~ret'.err
       /\ ret'.keys = IF Exists(Now0, QRoot(ret'.query))
                        THEN {[name |-> "", ID |-> QRoot(ret'.query)]}
                        ELSE {}
       /\ \A ck \in ret'.keys : getRefID(Now0, M, ck).id = QRoot(ret'.query)
       /\ nextID' = nextID
       /\ links' = links /\ assoc' = assoc /\ rstore' = rstore
       /\ ids' = ids]_vars

\* a root query found its identifier in the store
C16_Witness ==
  /\ ret.op = "Query" /\ Len(ret.query.deps) = 0 /\ ~ret.err
  /\ ret.keys = {[name |-> "", ID |-> QRoot(ret.query)]}
  /\ nops > 0

\* a root query of an identifier the store does not hold returned nothing
C16_WitnessMiss ==
  /\ ret.op = "Query" /\ Len(ret.query.deps) = 0 /\ ~ret.err
  /\ ret.keys = {}
  /\ nops > 0

-----------------------------------------------------------------------------
(* The result of getIDFromDeps characterised, under SpecDerive. *)

\* the identifiers the parents of slot i of x link to with the label of x
SlotTargets(i) == {t \in TargetIDs : \E j \in 1..2 : Linked(i, j, t)}
\* in the union of slot 0 and, for the later slot, linked from at least one
\* of its parents
SomeParentEachSlot == SlotTargets(1) \cap SlotTargets(2)
Minted(id) == id \notin TargetIDs

\* C17: with S the identifiers linked from a parent of slot 0 and from at
\* least one parent of every later slot, getIDFromDeps returns a member of S
\* when no WalkLinks fails and S is not empty, and it mints an identifier
\* exactly when S is empty or a WalkLinks failed.
C17_DeriveCharacterised ==
  ret.op = "getIDFromDeps" =>
    /\ (ret.failed = "" /\ SomeParentEachSlot # {}) => ret.id \in SomeParentEachSlot
    /\ Minted(ret.id) <=> (SomeParentEachSlot = {} \/ ret.failed # "")

\* what getIDFromDeps does: the later slot counts with each of its parents
C17_DeriveEveryLaterParent ==
  ret.op = "getIDFromDeps" =>
    /\ (ret.failed = "" /\ (\E t \in TargetIDs : Surviving(t))) => Surviving(ret.id)
    /\ Minted(ret.id) <=> ((\A t \in TargetIDs : ~Surviving(t)) \/ ret.failed # "")

-----------------------------------------------------------------------------
(* The handles of the bulk mapping of LoadWithParents, under Spec. *)

\* the LoadedResults returned that hold handle h
ReturnedIn(h) == {n \in 1..Len(ret.loaded) : ret.loaded[n].Result = h}

\* C20: after a LoadWithParents on the bulk path every handle of the mapping
\* is either in exactly one returned LoadedResult and not released, or
\* released exactly once and not returned.
C20_HandleOwnership ==
  (ret.op = "LoadWithParents" /\ ret.lwp) =>
    \A h \in DOMAIN ret.rel :
      \/ Cardinality(ReturnedIn(h)) = 1 /\ ret.rel[h] = 0
      \/ ReturnedIn(h) = {} /\ ret.rel[h] = 1

\* no handle is released twice, and the handles of a call in which no
\* WalkResults failed are owned as C20 says
C20_HandleOwnershipNoFailure ==
  (ret.op = "LoadWithParents" /\ ret.lwp) =>
    \A h \in DOMAIN ret.rel :
      /\ ret.rel[h] <= 1
      /\ Cardinality(ReturnedIn(h)) <= 1
      /\ ret.failed = "" =>
           \/ Cardinality(ReturnedIn(h)) = 1 /\ ret.rel[h] = 0
           \/ ReturnedIn(h) = {} /\ ret.rel[h] = 1

-----------------------------------------------------------------------------
(* getID as goroutines run it, call by call, under the locks k.mu of the   *)
(* keys.  Each goroutine is one call, on one of the keys g, p, k1, k3 (p   *)
(* and k3 share the parent g, k1 has the parent p), on either manager,     *)
(* made directly (as Records does, which takes no c.mu) or under c.mu for  *)
(* reading (Query, Load) or for writing (Save).                            *)

Modes == {"direct", "RLock", "Lock"}
\* the keys the goroutines resolve
Resolved == {"g", "p", "k1", "k3"}

\* k.mu.Lock() goes on although the mutex is held
KeyAlwaysFree(km, k) == TRUE

\* line 369: k.mu.Lock() goes on when no goroutine holds the mutex
KeyFree(km, k) == km[k] = ""

\* the mutex kept when getID returns
KUnlockNever(km, k) == km

\* lines 372, 377, 382: k.mu.Unlock()
KUnlock(km, k) == [km EXCEPT ![k] = ""]

\* a call of getID(k) that has not locked k.mu yet
Frame(k) == [k |-> k, pc |-> "lock", i |-> 1, j |-> 1, matches |-> {}]
Top(t) == go[t].frames[Len(go[t].frames)]
SetTop(t, fr) == [go EXCEPT ![t].frames[Len(go[t].frames)] = fr]
InGetID(t, pc) == go[t].stage = "run" /\ Top(t).pc = pc

KeysFrame == UNCHANGED <<links, assoc, rstore, saved, ret, nops, faulted, th, mu, overlap>>

\* goroutine t calls an operation of manager c that resolves k: after
\* c.mu.RLock() (lines 87, 192, 279), after c.mu.Lock() (line 323), or with
\* neither (Records, line 159), it calls c.getID(k)
KBegin(t, k, c, mode) ==
  /\ go[t].stage = "idle"
  /\ \/ mode = "direct" /\ UNCHANGED cmu
     \/ /\ mode = "RLock"
        /\ cmu[c].w = ""
        /\ cmu' = [cmu EXCEPT ![c].r = @ \cup {t}]
     \/ /\ mode = "Lock"
        /\ cmu[c].w = "" /\ cmu[c].r = {}
        /\ cmu' = [cmu EXCEPT ![c].w = t]
  /\ go' = [go EXCEPT ![t] = [Resting EXCEPT !.stage = "run", !.c = c, !.mode = mode,
                                             !.k = k, !.frames = <<Frame(k)>>]]
  /\ UNCHANGED <<ids, nextID, kmu>>
  /\ KeysFrame

\* line 369
KLock(t) ==
  /\ InGetID(t, "lock")
  /\ KeyFree(kmu, Top(t).k)
  /\ kmu' = [kmu EXCEPT ![Top(t).k] = t]
  /\ go' = SetTop(t, [Top(t) EXCEPT !.pc = "memo"])
  /\ UNCHANGED <<ids, nextID, cmu>>
  /\ KeysFrame

\* the innermost getID of t unlocks k.mu and returns id to its caller
KReturn(t, id) ==
  /\ kmu' = KUnlock(kmu, Top(t).k)
  /\ go' = [go EXCEPT ![t].frames = SubSeq(@, 1, Len(@) - 1),
                      ![t].got = id,
                      ![t].stage = IF Len(go[t].frames) = 1 THEN "done" ELSE "run"]

\* lines 370-379: the identifier known, or that of a key without dependencies
KMemo(t) ==
  /\ InGetID(t, "memo")
  /\ \E k \in {Top(t).k}, c \in {go[t].c} :
       IF ids[k][c] # NoID
         THEN KReturn(t, ids[k][c]) /\ UNCHANGED ids
       ELSE IF Len(Key[k].deps) = 0
         THEN KReturn(t, Key[k].ID) /\ ids' = [ids EXCEPT ![k][c] = Key[k].ID]
       ELSE /\ go' = SetTop(t, [Top(t) EXCEPT !.pc = "deps"])
            /\ UNCHANGED <<ids, kmu>>
  /\ UNCHANGED <<nextID, cmu>>
  /\ KeysFrame

\* lines 413-421 and 444-448, 381-383: getIDFromDeps at dependency j of slot
\* i: past the last slot an identifier is picked or minted, kept and
\* returned; a slot is left when it is done or no candidate is left;
\* otherwise getID of the dependency is called
KDep(t) ==
  /\ InGetID(t, "deps")
  /\ \E fr \in {Top(t)}, c \in {go[t].c} :
       IF fr.i > Len(Key[fr.k].deps)
         THEN \E r \in {PickOrMint([w |-> World(c, 0, FALSE, NoID), matches |-> fr.matches])} :
                /\ ids' = [ids EXCEPT ![fr.k][c] = r.id]
                /\ nextID' = r.w.next
                /\ KReturn(t, r.id)
       ELSE IF (fr.j = 1 /\ ~(fr.i = 1 \/ fr.matches # {})) \/ fr.j > Len(Key[fr.k].deps[fr.i])
         THEN /\ go' = SetTop(t, [fr EXCEPT !.i = @ + 1, !.j = 1])
              /\ UNCHANGED <<ids, nextID, kmu>>
       ELSE /\ go' = [go EXCEPT ![t].frames =
                        Append(SetTop(t, [fr EXCEPT !.pc = "walk"])[t].frames,
                               Frame(Key[fr.k].deps[fr.i][fr.j].key)),
                                ![t].got = NoID]
            /\ UNCHANGED <<ids, nextID, kmu>>
  /\ UNCHANGED cmu
  /\ KeysFrame

\* lines 416-440: WalkLinks from the identifier the dependency's getID gave
KWalk(t) ==
  /\ InGetID(t, "walk")
  /\ \E fr \in {Top(t)}, f \in {0, 1} :
       \E wl \in {WalkLinks(World(go[t].c, f, FALSE, NoID), go[t].got,
                            DepLink(fr.k, fr.i, fr.j))} :
         go' = [SetTop(t, IF wl.err
                            THEN [fr EXCEPT !.pc = "deps", !.i = @ + 1, !.j = 1,
                                            !.matches = {}]
                            ELSE [fr EXCEPT !.pc = "deps", !.j = @ + 1,
                                            !.matches = Intersect(fr.i, @, wl.ids)])
                  EXCEPT ![t].got = NoID]
  /\ UNCHANGED <<ids, nextID, kmu, cmu>>
  /\ KeysFrame

\* the operation goes on with the identifier and ends, and the goroutine
\* with it: the deferred c.mu.RUnlock() or c.mu.Unlock()
KEnd(t) ==
  /\ go[t].stage = "done"
  /\ cmu' = [cmu EXCEPT ![go[t].c] = [w |-> IF @.w = t THEN "" ELSE @.w, r |-> @.r \ {t}]]
  /\ go' = [go EXCEPT ![t] = [Resting EXCEPT !.stage = "ended"]]
  /\ UNCHANGED <<ids, nextID, kmu>>
  /\ KeysFrame

\* what goroutine t does once it has called
KeyStep(t) == KLock(t) \/ KMemo(t) \/ KDep(t) \/ KWalk(t) \/ KEnd(t)

NextKeys ==
  \/ \E t \in Threads, k \in Resolved, c \in Managers, mode \in Modes : KBegin(t, k, c, mode)
  \/ \E t \in Threads : KLock(t)
  \/ \E t \in Threads : KMemo(t)
  \/ \E t \in Threads : KDep(t)
  \/ \E t \in Threads : KWalk(t)
  \/ \E t \in Threads : KEnd(t)

SpecKeys == Init /\ [][NextKeys]_vars

\* a goroutine that can take a step takes one: the Go scheduler runs every
\* runnable goroutine, and a goroutine blocked in Lock runs once the mutex
\* stays free
SpecKeysFair == SpecKeys /\ \A t \in Threads : WF_vars(KeyStep(t))

-----------------------------------------------------------------------------
(* Claims about concurrent resolution, under SpecKeys and SpecKeysFair. *)

Resolving(t) == go[t].stage = "run"
\* goroutine t waits for k.mu, which goroutine u holds
WaitsFor(t, u) == InGetID(t, "lock") /\ kmu[Top(t).k] = u

\* C18: every getID call a goroutine is in returns in the end, whatever keys
\* of the graph the goroutines resolve, on whichever managers and from
\* whichever operations: no goroutine waits for a key's mutex forever.
C18_ResolveReturns ==
  \A t \in Threads : Resolving(t) ~> ~Resolving(t)

\* a goroutine waits for the mutex of a key that a goroutine resolving on
\* the other manager holds deep in its own resolution
C18_Witness ==
  \E t, u \in Threads :
    /\ WaitsFor(t, u)
    /\ go[t].c # go[u].c
    /\ Len(go[t].frames) > 1
    /\ Len(go[u].frames) > 1

\* the identities of the keys with those of the managers other than c unset
Without(w, c) ==
  [w EXCEPT !.ids = [k \in Keys |-> [d \in Managers |-> IF d = c THEN w.ids[k][d] ELSE NoID]]]
\* getID on c gives what it would give if no other manager had resolved a key
ReadsOwnOnly(k, c) ==
  getID(World(c, 0, FALSE, NoID), c, k).id = getID(Without(World(c, 0, FALSE, NoID), c), c, k).id
\* goroutine t returns from a getID in the step
Returns(t) == Resolving(t) /\ Len(go'[t].frames) < Len(go[t].frames)

\* C19: k.ids[c] once set is never changed or removed; every getID(k) on c,
\* of any goroutine, returns k.ids[c] as it is set then, so all of them
\* return the same identifier; a step of a goroutine resolving on c leaves
\* the identities of the other managers as they were, and what getID gives
\* on c does not depend on them.
C19_SingleValuedMonotonic ==
  [][/\ \A k \in Keys, c \in Managers : ids[k][c] # NoID => ids'[k][c] = ids[k][c]
     /\ \A t \in Threads :
          Returns(t) => /\ go'[t].got # NoID
                        /\ go'[t].got = ids'[Top(t).k][go[t].c]
     /\ \A t \in Threads :
          go'[t] # go[t] =>
            \A k \in Keys, c \in Managers \ {go'[t].c} : ids'[k][c] = ids[k][c]
     /\ \A k \in Resolved, c \in Managers : ReadsOwnOnly(k, c)]_vars

\* both goroutines have resolved p on the same manager, to the one
\* identifier minted for it
C19_Witness ==
  /\ \A t \in Threads : go[t].stage = "done" /\ go[t].k = "p" /\ go[t].c = "M2"
  /\ go["t1"].got = go["t2"].got
  /\ go["t1"].got = ids["p"]["M2"]
  /\ ids["p"]["M2"] # NoID

=============================================================================
